---- MODULE Spec2Model ----
(***************************************************************************)
(* N-HiTS (src/models/nhits/nhits.py): the doubly-residual forward         *)
(* recurrence of _NHITS, the construction and forward pass of _NHITSBlock, *)
(* the stochastic pooling layer and the stack builder create_stack.        *)
(*                                                                         *)
(* Tensors are sequences: a [N, T] tensor is a sequence of N rows of       *)
(* length T (1-based here, 0-based in the source).  Weights are integers,  *)
(* so that sums are exact.  The forward recurrence is run on batches of    *)
(* one series: every operation of it acts on each row separately.          *)
(***************************************************************************)
EXTENDS Integers, Sequences, FiniteSets, TLC

(***************************************************************************)
(* Bounds of the model.                                                    *)
(***************************************************************************)
NTimeIn == 2
NTimeOut == 2
MaxVal == 1
MaxBlocks == 2
MaxStacks == 2
MaxBlocksPerStack == 2
MaxFreq == 2
MaxTimeIn == 3
MaxTimeOut == 2
MaxKernel == 2
MaxHidden == 2
MaxWidth == 8
PoolBatch == 2
PoolLen == 4
BasisBatch == 2
MaxBatch == 2

VARIABLES
    \* ---- _NHITS.forecast / _NHITS.forecast_decomposition ----
    insample_y,       \* [N, n_time_in] the insample window, oldest value first
    insample_mask,    \* [N, n_time_in] availability mask, oldest first
    blocks,           \* self.blocks: the ordered list of blocks (their weights)
    pc,               \* position in the operation that is running
    i,                \* loop index i of the operation that is running
    residuals,        \* local residuals
    mask_flipped,     \* local insample_mask after the flip
    forecast,         \* local forecast accumulator
    block_forecasts,  \* local list of the decomposition pass
    forecast_ret,     \* value returned by forecast()
    decomposition_ret, \* value returned by forecast_decomposition()
    \* ---- _NHITS.create_stack ----
    stack_types,      \* argument stack_types
    n_blocks,         \* argument n_blocks, one count per stack
    n_freq_downsample, \* argument n_freq_downsample, one factor per stack
    shared_weights,   \* argument shared_weights
    batch_normalization, \* argument batch_normalization
    block_id,         \* inner loop index
    block_list,       \* local block_list: one reference (instance number) per position
    instances,        \* the _NHITSBlock objects constructed so far, by instance number
    hparams,          \* the arguments of the model that reach the blocks and init_weights
    self_initialization, \* self.initialization: the name init_weights is called with
    \* ---- _NHITSBlock.__init__ / _NHITSBlock.forward ----
    config,           \* the arguments of the constructor
    block,            \* the constructed block: its recorded widths and its layers
    fwd,              \* the widths seen by one forward call
    \* ---- StochasticPool1D.forward ----
    pool_x,           \* x: [N, L] the input
    pool_kernel_size, \* self.kernel_size (= self.stride in a block)
    pool_idx,         \* idx: the random indices drawn, one per window
    pool_out,         \* the tensor returned
    \* ---- IdentityBasis.forward ----
    basis_self,       \* self: backcast_size, forecast_size, interpolation_mode
    basis_theta,      \* theta: [N, n_theta] the coefficients
    basis_backcast,   \* local backcast
    basis_knots,      \* local knots
    basis_forecast    \* local forecast

forecast_vars == <<insample_y, insample_mask, blocks, residuals, mask_flipped,
                   forecast, block_forecasts, forecast_ret, decomposition_ret>>
stack_vars == <<stack_types, n_blocks, n_freq_downsample, shared_weights,
                batch_normalization, block_id, block_list, instances, hparams,
                self_initialization>>

block_vars == <<config, block, fwd>>
pool_vars == <<pool_x, pool_kernel_size, pool_idx, pool_out>>
basis_vars == <<basis_self, basis_theta, basis_backcast, basis_knots, basis_forecast>>

vars == <<pc, i, forecast_vars, stack_vars, block_vars, pool_vars, basis_vars>>

\* the variables of an operation that is not running
ForecastIdle ==
    /\ insample_y = <<>> /\ insample_mask = <<>> /\ blocks = <<>>
    /\ residuals = <<>> /\ mask_flipped = <<>> /\ forecast = <<>>
    /\ block_forecasts = <<>> /\ forecast_ret = <<>> /\ decomposition_ret = <<>>
StackIdle ==
    /\ stack_types = <<>> /\ n_blocks = <<>> /\ n_freq_downsample = <<>>
    /\ shared_weights = FALSE /\ batch_normalization = FALSE
    /\ block_id = 0 /\ block_list = <<>> /\ instances = <<>> /\ hparams = <<>>
    /\ self_initialization = ""
BlockIdle ==
    /\ config = <<>> /\ block = <<>> /\ fwd = <<>>
PoolIdle ==
    /\ pool_x = <<>> /\ pool_kernel_size = 0 /\ pool_idx = <<>> /\ pool_out = <<>>
BasisIdle ==
    /\ basis_self = <<>> /\ basis_theta = <<>> /\ basis_backcast = <<>>
    /\ basis_knots = <<>> /\ basis_forecast = <<>>

(***************************************************************************)
(* Arithmetic helpers.                                                     *)
(***************************************************************************)
Max2(a, b) == IF a >= b THEN a ELSE b
Min2(a, b) == IF a <= b THEN a ELSE b

RECURSIVE SumSeq(_)
SumSeq(s) == IF Len(s) = 0 THEN 0 ELSE s[1] + SumSeq(Tail(s))

RECURSIVE MaxSeq(_)
MaxSeq(s) == IF Len(s) = 1 THEN s[1] ELSE Max2(s[1], MaxSeq(Tail(s)))

\* the [N, T] tensors with entries in S
Tensor(n, len, S) == [1..n -> [1..len -> S]]

(***************************************************************************)
(* Tensor operations used by the forward pass.                             *)
(***************************************************************************)
\* x.flip(dims=(-1,)): every row reversed in time
Flip(x) == [b \in 1..Len(x) |-> [j \in 1..Len(x[b]) |-> x[b][Len(x[b]) + 1 - j]]]

\* the level taken from the first column instead of the last
LevelFirstColumn(y) == [b \in 1..Len(y) |-> <<y[b][1]>>]

\* insample_y[:, -1:]: the last column, kept as a [N, 1] tensor
Level(y) == [b \in 1..Len(y) |-> <<y[b][Len(y[b])]>>]

\* the residual update without the availability mask
ResidualUpdateUnmasked(res, backcast, mask) ==
    [b \in 1..Len(res) |->
        [j \in 1..Len(res[b]) |-> res[b][j] - backcast[b][j]]]

\* the residual update with the operands of the subtraction swapped
ResidualUpdateSwapped(res, backcast, mask) ==
    [b \in 1..Len(res) |->
        [j \in 1..Len(res[b]) |-> (backcast[b][j] - res[b][j]) * mask[b][j]]]

\* (residuals - backcast) * insample_mask, element-wise
ResidualUpdate(res, backcast, mask) ==
    [b \in 1..Len(res) |->
        [j \in 1..Len(res[b]) |-> (res[b][j] - backcast[b][j]) * mask[b][j]]]

\* forecast + block_forecast with broadcasting of a [N, 1] operand
BroadcastAdd(a, c) ==
    [b \in 1..Len(a) |->
        [h \in 1..Max2(Len(a[b]), Len(c[b])) |->
            a[b][IF Len(a[b]) = 1 THEN 1 ELSE h]
          + c[b][IF Len(c[b]) = 1 THEN 1 ELSE h]]]

\* the level padded with zeros instead of repeated
RepeatPadded(level, n_t) ==
    [b \in 1..Len(level) |-> [h \in 1..n_t |-> IF h = 1 THEN level[b][1] ELSE 0]]

\* level.repeat(1, n_t)
Repeat(level, n_t) == [b \in 1..Len(level) |-> [h \in 1..n_t |-> level[b][1]]]

\* the stacked list without the permutation: the block axis stays first
StackOnly(list) == list

\* t.stack(block_forecasts).permute(1, 0, 2): [n_blocks + 1, N, n_t] -> [N, n_blocks + 1, n_t]
StackPermute(list) ==
    [b \in 1..Len(list[1]) |-> [k \in 1..Len(list) |-> list[k][b]]]

(***************************************************************************)
(* A block as the forward recurrence sees it: max pooling of the residual, *)
(* the projection self.layers, and the identity basis in 'nearest' mode.   *)
(* The learned projection is an affine map with integer weights w.scale    *)
(* and w.bias; w.kernel is n_pool_kernel_size, w.freq n_freq_downsample.   *)
(* These blocks hold no BatchNorm1d (linear layers built without batch     *)
(* normalization), so they run on a batch of any size in either mode.      *)
(***************************************************************************)
\* nn.MaxPool1d(kernel_size=k, stride=k) on one row
MaxPool1d(row, k) ==
    [j \in 1..(Len(row) \div k) |-> MaxSeq(SubSeq(row, (j - 1) * k + 1, j * k))]

\* n_theta of an identity stack
\* the coefficient count without the lower bound of one knot
NThetaUnbounded(n_time_in, n_time_out, freq) == n_time_in + n_time_out \div freq

NTheta(n_time_in, n_time_out, freq) == n_time_in + Max2(n_time_out \div freq, 1)

\* self.layers(insample_y) on one row
Layers(w, row, n_theta) ==
    [j \in 1..n_theta |-> w.scale * row[((j - 1) % Len(row)) + 1] + w.bias * j]

\* an interpolation that reads the knot after the nearest one
InterpolateNext(knots, size) ==
    [h \in 1..size |-> knots[Min2((h * Len(knots)) \div size, Len(knots) - 1) + 1]]

\* F.interpolate(knots, size, mode='nearest') on one row
InterpolateNearest(knots, size) ==
    [h \in 1..size |-> knots[Min2(((h - 1) * Len(knots)) \div size, Len(knots) - 1) + 1]]

\* IdentityBasis.forward on one row, interpolation_mode = 'nearest'
IdentityBasis(theta, backcast_size, forecast_size) ==
    [backcast |-> SubSeq(theta, 1, backcast_size),
     forecast |-> InterpolateNearest(SubSeq(theta, backcast_size + 1, Len(theta)),
                                     forecast_size)]

\* _NHITSBlock.forward on a [N, n_time_in] tensor
Block(w, x) ==
    LET out(b) == IdentityBasis(Layers(w, MaxPool1d(x[b], w.kernel),
                                       NTheta(NTimeIn, NTimeOut, w.freq)),
                                NTimeIn, NTimeOut)
    IN  [backcast |-> [b \in 1..Len(x) |-> out(b).backcast],
         forecast |-> [b \in 1..Len(x) |-> out(b).forecast]]

\* the blocks the model is built from
\* (pooling kernels that divide the window; a block down-samples its knots by
\* the factor it pools its input with)
PoolKernels == {k \in 1..NTimeIn : NTimeIn % k = 0}
BlockWeights ==
    {[kernel |-> k, freq |-> k, scale |-> s, bias |-> 1] : k \in PoolKernels, s \in {1, 2}}

RECURSIVE SeqsUpTo(_, _)
SeqsUpTo(S, n) ==
    IF n = 0 THEN {<<>>}
    ELSE LET shorter == SeqsUpTo(S, n - 1)
         IN  shorter \cup {Append(s, e) : s \in {t \in shorter : Len(t) = n - 1}, e \in S}

(***************************************************************************)
(* _NHITS.forward: forecast(), then forecast_decomposition() on the same   *)
(* input.                                                                  *)
(***************************************************************************)
InitForecast ==
    /\ insample_y \in Tensor(1, NTimeIn, 0..MaxVal)
    /\ insample_mask \in Tensor(1, NTimeIn, {0, 1})
    /\ blocks \in SeqsUpTo(BlockWeights, MaxBlocks)
    /\ pc = "forecast"
    /\ i = 0
    /\ residuals = <<>>
    /\ mask_flipped = <<>>
    /\ forecast = <<>>
    /\ block_forecasts = <<>>
    /\ forecast_ret = <<>>
    /\ decomposition_ret = <<>>
    /\ StackIdle
    /\ BlockIdle
    /\ PoolIdle
    /\ BasisIdle

\* forecast(), lines before the loop
ForecastStart ==
    /\ pc = "forecast"
    /\ residuals' = Flip(insample_y)
    /\ mask_flipped' = Flip(insample_mask)
    /\ forecast' = Level(insample_y)
    /\ i' = 1
    /\ pc' = "forecast_loop"
    /\ UNCHANGED <<stack_vars, block_vars, pool_vars, basis_vars, insample_y, insample_mask, blocks, block_forecasts,
                   forecast_ret, decomposition_ret>>

\* forecast(), one iteration of the loop
ForecastBlock ==
    /\ pc = "forecast_loop"
    /\ i <= Len(blocks)
    /\ LET out == Block(blocks[i], residuals)
       IN  /\ residuals' = ResidualUpdate(residuals, out.backcast, mask_flipped)
           /\ forecast' = BroadcastAdd(forecast, out.forecast)
    /\ i' = i + 1
    /\ UNCHANGED <<stack_vars, block_vars, pool_vars, basis_vars, insample_y, insample_mask, blocks, pc, mask_flipped,
                   block_forecasts, forecast_ret, decomposition_ret>>

\* forecast(), return
ForecastReturn ==
    /\ pc = "forecast_loop"
    /\ i > Len(blocks)
    /\ forecast_ret' = forecast
    /\ pc' = "decomposition"
    /\ UNCHANGED <<stack_vars, block_vars, pool_vars, basis_vars, insample_y, insample_mask, blocks, i, residuals, mask_flipped,
                   forecast, block_forecasts, decomposition_ret>>

\* forecast_decomposition(), lines before the loop
DecompositionStart ==
    /\ pc = "decomposition"
    /\ residuals' = Flip(insample_y)
    /\ mask_flipped' = Flip(insample_mask)
    /\ block_forecasts' = <<Repeat(Level(insample_y), NTimeOut)>>
    /\ forecast' = Level(insample_y)
    /\ i' = 1
    /\ pc' = "decomposition_loop"
    /\ UNCHANGED <<stack_vars, block_vars, pool_vars, basis_vars, insample_y, insample_mask, blocks, forecast_ret, decomposition_ret>>

\* forecast_decomposition(), one iteration of the loop
DecompositionBlock ==
    /\ pc = "decomposition_loop"
    /\ i <= Len(blocks)
    /\ LET out == Block(blocks[i], residuals)
       IN  /\ residuals' = ResidualUpdate(residuals, out.backcast, mask_flipped)
           /\ forecast' = BroadcastAdd(forecast, out.forecast)
           /\ block_forecasts' = Append(block_forecasts, out.forecast)
    /\ i' = i + 1
    /\ UNCHANGED <<stack_vars, block_vars, pool_vars, basis_vars, insample_y, insample_mask, blocks, pc, mask_flipped,
                   forecast_ret, decomposition_ret>>

\* forecast_decomposition(), stack and return
DecompositionReturn ==
    /\ pc = "decomposition_loop"
    /\ i > Len(blocks)
    /\ decomposition_ret' = [forecast |-> forecast,
                             block_forecasts |-> StackPermute(block_forecasts)]
    /\ pc' = "done"
    /\ UNCHANGED <<stack_vars, block_vars, pool_vars, basis_vars, insample_y, insample_mask, blocks, i, residuals, mask_flipped,
                   forecast, block_forecasts, forecast_ret>>

NextForecast ==
    \/ ForecastStart
    \/ ForecastBlock
    \/ ForecastReturn
    \/ DecompositionStart
    \/ DecompositionBlock
    \/ DecompositionReturn

SpecForecast == InitForecast /\ [][NextForecast]_vars

(***************************************************************************)
(* _NHITSBlock.__init__ and _NHITSBlock.forward, on the widths (sizes of   *)
(* the last tensor dimension).  A layer is a record; the fields a kind of  *)
(* layer does not have are 0.                                              *)
(***************************************************************************)
\* _HiddenFeaturesLinearEncoder(in_features, out_features, activ, batch_normalization, dropout_prob)
LinearEncoder(in_features, out_features, activ, bn) ==
    [kind |-> "linear", in_features |-> in_features, out_features |-> out_features,
     kernel_size |-> 0, stride |-> 0, num_features |-> 0,
     activ |-> activ, batch_normalization |-> bn]

\* a down-sampling encoder whose convolution always moves by one position
DownSampleEncoderUnitStride(kernel_size, stride, num_features, activ) ==
    [kind |-> "down", in_features |-> 0, out_features |-> 0,
     kernel_size |-> kernel_size, stride |-> 1, num_features |-> num_features,
     activ |-> activ, batch_normalization |-> FALSE]

\* _HiddenFeaturesDownSampleEncoder(kernel_size, stride, num_features, activ)
DownSampleEncoder(kernel_size, stride, num_features, activ) ==
    [kind |-> "down", in_features |-> 0, out_features |-> 0,
     kernel_size |-> kernel_size, stride |-> stride, num_features |-> num_features,
     activ |-> activ, batch_normalization |-> FALSE]

\* _HiddenFeaturesUpsampleEncoder(kernel_size, stride, num_features, activ)
UpsampleEncoder(kernel_size, stride, num_features, activ) ==
    [kind |-> "up", in_features |-> 0, out_features |-> 0,
     kernel_size |-> kernel_size, stride |-> stride, num_features |-> num_features,
     activ |-> activ, batch_normalization |-> FALSE]

\* nn.MaxPool1d(kernel_size, stride) used as an output layer
MaxPoolLayer(kernel_size, stride) ==
    [kind |-> "maxpool", in_features |-> 0, out_features |-> 0,
     kernel_size |-> kernel_size, stride |-> stride, num_features |-> 0,
     activ |-> "None", batch_normalization |-> FALSE]

\* int(np.ceil(n_time_in/n_pool_kernel_size))
NTimeInPooled(n_time_in, n_pool_kernel_size) ==
    (n_time_in + n_pool_kernel_size - 1) \div n_pool_kernel_size

\* [n_time_in_pooled + (n_time_in+n_time_out)*n_x + n_s_hidden] + n_theta_hidden
NThetaHidden(c) ==
    <<NTimeInPooled(c.n_time_in, c.n_pool_kernel_size)
        + (c.n_time_in + c.n_time_out) * c.n_x
        + (IF c.n_s = 0 THEN 0 ELSE c.n_s_hidden)>> \o c.n_theta_hidden

\* the derived width with one position too many
DownWidthOffByOne(w_in, kernel, stride) == ((w_in - kernel) \div stride) + 2

\* math.floor(((w_in - kernel)/stride) + 1)
DownWidth(w_in, kernel, stride) == ((w_in - kernel) \div stride) + 1

\* the loop "for i in range(n_layers)": the layers it appends and the widths
\* it leaves in n_theta_hidden (k is i + 1)
RECURSIVE HiddenLayers(_, _, _, _, _, _, _)
HiddenLayers(k, n_layers, layer_mode, n_theta_hidden, hidden_layers, activ, bn) ==
    IF k > n_layers
    THEN [n_theta_hidden |-> n_theta_hidden, hidden_layers |-> hidden_layers]
    ELSE LET w_in == n_theta_hidden[k]
             w_out == n_theta_hidden[k + 1]
             next(widths, layer) ==
                 HiddenLayers(k + 1, n_layers, layer_mode, widths,
                              Append(hidden_layers, layer), activ, bn)
         IN  IF layer_mode = "conv" /\ w_in > w_out
             THEN IF w_in \div w_out >= 2
                  THEN LET kernel == w_in \div w_out
                           adjusted == DownWidth(w_in, kernel, kernel)
                       IN  next([n_theta_hidden EXCEPT ![k + 1] = adjusted],
                                DownSampleEncoder(kernel, kernel, adjusted, activ))
                  ELSE next(n_theta_hidden,
                            DownSampleEncoder(w_in - w_out + 1, 1, w_out, activ))
             ELSE IF layer_mode = "conv" /\ w_in < w_out
             THEN IF w_out \div w_in >= 2
                  THEN LET kernel == w_out \div w_in
                           adjusted == kernel * w_in
                       IN  next([n_theta_hidden EXCEPT ![k + 1] = adjusted],
                                UpsampleEncoder(kernel, kernel, adjusted, activ))
                  ELSE next(n_theta_hidden,
                            UpsampleEncoder(w_out - w_in + 1, 1, w_out, activ))
             ELSE IF layer_mode = "linear"
             THEN next(n_theta_hidden, LinearEncoder(w_in, w_out, activ, bn))
             ELSE HiddenLayers(k + 1, n_layers, layer_mode, n_theta_hidden,
                               hidden_layers, activ, bn)

\* self.output_layer for the last recorded width w = n_theta_hidden[-1]
OutputLayer(output_layer, w, n_theta, activ) ==
    LET linear(w_in) == LinearEncoder(w_in, n_theta, "None", FALSE)
    IN  IF output_layer = "linear" THEN <<linear(w)>>
        ELSE IF output_layer = "conv"
        THEN IF w > n_theta
             THEN IF w \div n_theta >= 2
                  THEN LET kernel == w \div n_theta
                           n_theta_adjusted == DownWidth(w, kernel, kernel)
                       IN  IF n_theta_adjusted # n_theta
                           THEN <<DownSampleEncoder(kernel, kernel, n_theta_adjusted, activ),
                                  linear(n_theta_adjusted)>>
                           ELSE <<DownSampleEncoder(kernel, kernel, n_theta_adjusted, "None")>>
                  ELSE <<DownSampleEncoder(w - n_theta + 1, 1, n_theta, "None")>>
             ELSE IF w < n_theta
             THEN IF n_theta \div w >= 2
                  THEN LET kernel == n_theta \div w
                           n_theta_adjusted == kernel * w
                       IN  IF n_theta_adjusted # n_theta
                           THEN <<UpsampleEncoder(kernel, kernel, n_theta_adjusted, activ),
                                  linear(n_theta_adjusted)>>
                           ELSE <<UpsampleEncoder(kernel, kernel, n_theta_adjusted, "None")>>
                  ELSE <<UpsampleEncoder(n_theta - w + 1, 1, n_theta, "None")>>
             ELSE <<linear(w)>>
        ELSE \* output_layer = "max"
             IF w > n_theta
             THEN IF w \div n_theta >= 2
                  THEN LET kernel == w \div n_theta
                           n_theta_adjusted == DownWidth(w, kernel, kernel)
                       IN  IF n_theta_adjusted # n_theta
                           THEN <<MaxPoolLayer(kernel, kernel), linear(n_theta_adjusted)>>
                           ELSE <<MaxPoolLayer(kernel, kernel)>>
                  ELSE <<MaxPoolLayer(w - n_theta + 1, 1)>>
             ELSE <<linear(w)>>

\* the constructor without the assertion on the activation name
ConstructorAcceptsAnyActivation(c) ==
    /\ c.pooling_mode \in {"max", "conv", "stochastic", "none"}
    /\ c.pooling_mode # "conv"

\* whether the constructor returns: the pooling mode and the activation are
\* asserted, and the 'conv' pooling branch calls _HiddenFeaturesDownSampleEncoder
\* without its arguments num_features and activ, which raises a TypeError
ACTIVATIONS == {"ReLU", "Softplus", "Tanh", "SELU", "LeakyReLU", "PReLU", "Sigmoid", "Sin"}
ConstructorAccepts(c) ==
    /\ c.pooling_mode \in {"max", "conv", "stochastic", "none"}
    /\ c.activation \in ACTIVATIONS
    /\ c.pooling_mode # "conv"

\* the block object __init__ leaves behind
NHITSBlock(c) ==
    LET hidden == HiddenLayers(1, c.n_layers, c.layer_mode, NThetaHidden(c), <<>>,
                               c.activation, c.batch_normalization)
        widths == hidden.n_theta_hidden
        output == OutputLayer(c.output_layer, widths[Len(widths)], c.n_theta, c.activation)
    IN  [\* super().__init__(): a constructed nn.Module is in training mode
         training |-> TRUE,
         n_time_in_pooled |-> NTimeInPooled(c.n_time_in, c.n_pool_kernel_size),
         n_theta_hidden |-> widths,
         hidden_layers |-> hidden.hidden_layers,
         output_layer |-> output,
         layers |-> hidden.hidden_layers \o output]

(***************************************************************************)
(* The forward pass on widths.  Err is the width of a tensor that does not *)
(* exist because the call raised.                                          *)
(***************************************************************************)
Err == 0 - 1

\* the width a pooling or convolution window of the given kernel and stride
\* leaves: floor((w - kernel)/stride) + 1, an error when the kernel is wider
\* than the input
WindowWidth(w, kernel, stride) ==
    IF w < kernel THEN Err ELSE ((w - kernel) \div stride) + 1

\* self.ConvLayer(x): the width a Conv1d or a ConvTranspose1d leaves
ConvWidth(layer, w) ==
    IF layer.kind = "down"
    THEN WindowWidth(w, layer.kernel_size, layer.stride)
    ELSE (w - 1) * layer.stride + layer.kernel_size

\* nn.BatchNorm1d(num_features) on a [n, w] tensor: the width must be
\* num_features, and a module in training mode needs more than one row
BatchNorm1d(num_features, w, n, training) ==
    IF w = Err \/ w # num_features \/ (training /\ n = 1) THEN Err ELSE w

\* the forward call of one layer on n rows of width w, the module being in
\* training mode or not
ApplyLayer(layer, w, n, training) ==
    IF w = Err THEN Err
    ELSE IF layer.kind = "linear"
    THEN IF w # layer.in_features THEN Err
         ELSE IF layer.batch_normalization
         THEN BatchNorm1d(layer.out_features, layer.out_features, n, training)
         ELSE layer.out_features
    ELSE IF layer.kind = "maxpool"
    THEN WindowWidth(w, layer.kernel_size, layer.stride)
    ELSE \* BatchNorm1d(num_features) runs only together with the activation
         IF layer.activ # "None"
         THEN BatchNorm1d(layer.num_features, ConvWidth(layer, w), n, training)
         ELSE ConvWidth(layer, w)

\* nn.Sequential(*layers)
RECURSIVE ApplyLayers(_, _, _, _)
ApplyLayers(layers, w, n, training) ==
    IF Len(layers) = 0 THEN w
    ELSE ApplyLayers(Tail(layers), ApplyLayer(layers[1], w, n, training), n, training)

\* the pooling step of forward
PooledWidth(c) ==
    IF c.pooling_mode = "max"
    THEN WindowWidth(c.n_time_in, c.n_pool_kernel_size, c.n_pool_kernel_size)
    ELSE IF c.pooling_mode = "stochastic"
    THEN \* unfold(1, k, k), then view(N, int(n/k))
         IF WindowWidth(c.n_time_in, c.n_pool_kernel_size, c.n_pool_kernel_size) = Err
         THEN Err ELSE c.n_time_in \div c.n_pool_kernel_size
    ELSE c.n_time_in

\* the concatenation of the exogenous and the encoded static features
ConcatWidth(c, w) ==
    IF w = Err THEN Err
    ELSE w + (IF c.n_x > 0 THEN (c.n_time_in + c.n_time_out) * c.n_x ELSE 0)
           + (IF c.n_s > 0 /\ c.n_s_hidden > 0 THEN c.n_s_hidden ELSE 0)

\* IdentityBasis.forward on a theta of width w: the widths of backcast and
\* forecast; interpolating an empty knots segment raises
BasisWidths(w, backcast_size, forecast_size) ==
    IF w = Err \/ w <= backcast_size
    THEN [backcast |-> Err, forecast |-> Err]
    ELSE [backcast |-> backcast_size, forecast |-> forecast_size]

Forward(c, blk, n, training) ==
    LET pooled == PooledWidth(c)
        input == ConcatWidth(c, pooled)
        theta == ApplyLayers(blk.layers, input, n, training)
        basis == BasisWidths(theta, c.n_time_in, c.n_time_out)
    IN  [batch |-> n, training |-> training,
         pooled |-> pooled, input |-> input, theta |-> theta,
         backcast |-> basis.backcast, forecast |-> basis.forecast]

(***************************************************************************)
(* The arguments blocks are constructed with.                              *)
(***************************************************************************)
PoolingModes == {"max", "conv", "stochastic", "none", "avg"}
LayerModes == {"linear", "conv"}
OutputLayers == {"linear", "conv", "max"}
ActivationArgs == {"ReLU"}

\* hidden width lists of up to two layers, with the number of layers built
HiddenArgs(W) ==
    {<<n, h>> \in (0..2) \X SeqsUpTo(W, 2) : n <= Len(h)}

\* the blocks create_stack constructs: n_theta follows from the windows and
\* the frequency down-sampling factor
StackConfigs ==
    {[n_time_in |-> n_in, n_time_out |-> n_out, n_x |-> n_x, n_s |-> 0, n_s_hidden |-> 0,
      n_theta |-> NTheta(n_in, n_out, f), n_theta_hidden |-> nh[2],
      n_pool_kernel_size |-> k, n_freq_downsample |-> f,
      pooling_mode |-> pm, layer_mode |-> lm, output_layer |-> ol,
      n_layers |-> nh[1], batch_normalization |-> FALSE, activation |-> a] :
        n_in \in 1..MaxTimeIn, n_out \in 1..MaxTimeOut, n_x \in {0, 1}, f \in {1, 2},
        k \in 1..MaxKernel, pm \in PoolingModes, lm \in LayerModes, ol \in OutputLayers,
        nh \in HiddenArgs(1..MaxHidden), a \in ActivationArgs}

\* blocks constructed directly, without pooling and features, over a wider
\* range of widths and with any n_theta
WidthConfigs ==
    {[n_time_in |-> w, n_time_out |-> 1, n_x |-> 0, n_s |-> 0, n_s_hidden |-> 0,
      n_theta |-> n_theta, n_theta_hidden |-> nh[2],
      n_pool_kernel_size |-> 1, n_freq_downsample |-> 1,
      pooling_mode |-> "none", layer_mode |-> lm, output_layer |-> ol,
      n_layers |-> nh[1], batch_normalization |-> FALSE, activation |-> a] :
        w \in 1..MaxWidth, n_theta \in 1..MaxWidth, lm \in LayerModes, ol \in OutputLayers,
        nh \in HiddenArgs(1..MaxWidth), a \in ActivationArgs}

\* blocks constructed with every activation name of the table and with names
\* that are not in it, in every pooling mode
ActivationNames == ACTIVATIONS \cup {"relu", "Swish"}
ActivationConfigs ==
    {[n_time_in |-> n_in, n_time_out |-> 1, n_x |-> 0, n_s |-> 0, n_s_hidden |-> 0,
      n_theta |-> NTheta(n_in, 1, 1), n_theta_hidden |-> <<n_in>>,
      n_pool_kernel_size |-> 1, n_freq_downsample |-> 1,
      pooling_mode |-> pm, layer_mode |-> lm, output_layer |-> ol,
      n_layers |-> 1, batch_normalization |-> FALSE, activation |-> a] :
        n_in \in 1..MaxTimeIn, pm \in PoolingModes, lm \in LayerModes, ol \in OutputLayers,
        a \in ActivationNames}

InitBlock ==
    /\ pc = "block"
    /\ i = 0
    /\ config = <<>>
    /\ block = <<>>
    /\ fwd = <<>>
    /\ ForecastIdle
    /\ StackIdle
    /\ PoolIdle
    /\ BasisIdle

\* _NHITSBlock.__init__ returns a block
BlockInit ==
    /\ pc = "block"
    /\ LET Construct(c) == /\ ConstructorAccepts(c)
                           /\ config' = c
                           /\ block' = NHITSBlock(c)
       IN  \/ \E c \in StackConfigs : Construct(c)
           \/ \E c \in WidthConfigs : Construct(c)
           \/ \E c \in ActivationConfigs : Construct(c)
    /\ pc' = "constructed"
    /\ UNCHANGED <<i, fwd, forecast_vars, stack_vars, pool_vars, basis_vars>>

\* _NHITSBlock.__init__ raises
BlockInitRaises ==
    /\ pc = "block"
    /\ LET Raise(c) == /\ ~ConstructorAccepts(c)
                       /\ config' = c
       IN  \/ \E c \in StackConfigs : Raise(c)
           \/ \E c \in WidthConfigs : Raise(c)
           \/ \E c \in ActivationConfigs : Raise(c)
    /\ pc' = "init_error"
    /\ UNCHANGED <<i, block, fwd, forecast_vars, stack_vars, pool_vars, basis_vars>>

\* _NHITSBlock.forward on a batch of insample signals of length n_time_in;
\* the module is in the mode the constructor left it in
BlockForward ==
    /\ pc = "constructed"
    /\ \E n \in 1..MaxBatch : fwd' = Forward(config, block, n, block.training)
    /\ pc' = "forwarded"
    /\ UNCHANGED <<i, config, block, forecast_vars, stack_vars, pool_vars, basis_vars>>

NextBlock ==
    \/ BlockInit
    \/ BlockInitRaises
    \/ BlockForward

SpecBlock == InitBlock /\ [][NextBlock]_vars

(***************************************************************************)
(* _NHITS.create_stack: one block reference per (stack, block_id), in      *)
(* construction order.                                                     *)
(***************************************************************************)
StackTypes == {"identity", "seasonality"}

\* arguments of a model of linear blocks, every name a recognized one; every
\* stack is given the same n_layers, n_theta_hidden and n_pool_kernel_size
DefaultHparams ==
    [activation |-> "ReLU", initialization |-> "lecun_normal", pooling_mode |-> "max",
     layer_mode |-> "linear", output_layer |-> "linear", n_layers |-> 1,
     n_theta_hidden |-> <<NTimeIn>>, n_pool_kernel_size |-> 1]

InitStack ==
    /\ \E n \in 1..MaxStacks :
           /\ stack_types \in [1..n -> StackTypes]
           /\ n_blocks \in [1..n -> 0..MaxBlocksPerStack]
           /\ n_freq_downsample \in [1..n -> 1..MaxFreq]
    /\ shared_weights \in BOOLEAN
    /\ batch_normalization \in BOOLEAN
    /\ pc = "create_stack"
    /\ i = 1
    /\ block_id = 0
    /\ block_list = <<>>
    /\ instances = <<>>
    /\ hparams = DefaultHparams
    /\ self_initialization = DefaultHparams.initialization
    /\ ForecastIdle
    /\ BlockIdle
    /\ PoolIdle
    /\ BasisIdle

\* batch normalization on every block when the model's flag is on
BatchNormalizationEveryBlock == batch_normalization

\* "Batch norm only on first block"
BatchNormalizationBlock == Len(block_list) = 0 /\ batch_normalization

\* the keyword arguments of the call _NHITSBlock(...) for a block of stack stk
BlockArgs(stk) ==
    [n_time_in |-> NTimeIn, n_time_out |-> NTimeOut, n_x |-> 0, n_s |-> 0, n_s_hidden |-> 0,
     n_theta |-> NTheta(NTimeIn, NTimeOut, n_freq_downsample[stk]),
     n_theta_hidden |-> hparams.n_theta_hidden,
     n_pool_kernel_size |-> hparams.n_pool_kernel_size,
     n_freq_downsample |-> n_freq_downsample[stk],
     pooling_mode |-> hparams.pooling_mode, layer_mode |-> hparams.layer_mode,
     output_layer |-> hparams.output_layer, n_layers |-> hparams.n_layers,
     batch_normalization |-> BatchNormalizationBlock, activation |-> hparams.activation]

\* the names init_weights knows
Initializations ==
    {"orthogonal", "he_uniform", "he_normal", "glorot_uniform", "glorot_normal", "Sin",
     "lecun_normal"}

\* init_weights(module, initialization) returns, for the modules of one layer
\* of self.layers: the name is looked at for an nn.Linear module only; a
\* Conv1d or ConvTranspose1d module is initialized whatever the name, and any
\* other module is left alone
InitWeights(layer, initialization) ==
    layer.kind = "linear" => initialization \in Initializations

\* nbeats_block.layers.apply(init_function) returns
LayersApply(layers, initialization) ==
    \A k \in 1..Len(layers) : InitWeights(layers[k], initialization)

\* the outer loop moves to the next stack
NextStackType ==
    /\ pc = "create_stack"
    /\ i <= Len(stack_types)
    /\ block_id >= n_blocks[i]
    /\ i' = i + 1
    /\ block_id' = 0
    /\ UNCHANGED <<pc, forecast_vars, block_vars, pool_vars, basis_vars, stack_types, n_blocks, n_freq_downsample,
                   shared_weights, batch_normalization, block_list, instances, hparams,
                   self_initialization>>

\* the position gets a reference to the first block of the whole list
ReuseFirstBlock ==
    /\ block_list' = Append(block_list, block_list[1])
    /\ UNCHANGED instances

\* the position repeats the reference of the previous position
ReuseLastBlock ==
    /\ block_list' = Append(block_list, block_list[Len(block_list)])
    /\ UNCHANGED instances

\* shared weights, block_id > 0: nbeats_block = block_list[-1]
SharedBlock ==
    /\ pc = "create_stack"
    /\ i <= Len(stack_types)
    /\ block_id < n_blocks[i]
    /\ shared_weights /\ block_id > 0
    /\ LayersApply(instances[block_list[Len(block_list)]].layers, self_initialization)
    /\ ReuseLastBlock
    /\ block_id' = block_id + 1
    /\ UNCHANGED <<pc, i, forecast_vars, block_vars, pool_vars, basis_vars, stack_types, n_blocks, n_freq_downsample,
                   shared_weights, batch_normalization, hparams, self_initialization>>

\* a new _NHITSBlock of an identity stack is constructed, initialized and
\* appended
NewBlock ==
    /\ pc = "create_stack"
    /\ i <= Len(stack_types)
    /\ block_id < n_blocks[i]
    /\ ~(shared_weights /\ block_id > 0)
    /\ stack_types[i] = "identity"
    /\ ConstructorAccepts(BlockArgs(i))
    /\ LayersApply(NHITSBlock(BlockArgs(i)).layers, self_initialization)
    /\ instances' = Append(instances,
                           [stack |-> i,
                            n_theta |-> NTheta(NTimeIn, NTimeOut, n_freq_downsample[i]),
                            batch_normalization |-> BatchNormalizationBlock,
                            layers |-> NHITSBlock(BlockArgs(i)).layers])
    /\ block_list' = Append(block_list, Len(instances) + 1)
    /\ block_id' = block_id + 1
    /\ UNCHANGED <<pc, i, forecast_vars, block_vars, pool_vars, basis_vars, stack_types, n_blocks, n_freq_downsample,
                   shared_weights, batch_normalization, hparams, self_initialization>>

\* assert 1<0, 'Block type not found!'
BlockTypeNotFound ==
    /\ pc = "create_stack"
    /\ i <= Len(stack_types)
    /\ block_id < n_blocks[i]
    /\ ~(shared_weights /\ block_id > 0)
    /\ stack_types[i] # "identity"
    /\ pc' = "error"
    /\ UNCHANGED <<i, forecast_vars, stack_vars, block_vars, pool_vars, basis_vars>>

\* return block_list
CreateStackReturn ==
    /\ pc = "create_stack"
    /\ i > Len(stack_types)
    /\ pc' = "created"
    /\ UNCHANGED <<i, forecast_vars, stack_vars, block_vars, pool_vars, basis_vars>>

\* _NHITSBlock(...) raises inside create_stack
BlockConstructorRaises ==
    /\ pc = "create_stack"
    /\ i <= Len(stack_types)
    /\ block_id < n_blocks[i]
    /\ ~(shared_weights /\ block_id > 0)
    /\ stack_types[i] = "identity"
    /\ ~ConstructorAccepts(BlockArgs(i))
    /\ pc' = "error"
    /\ UNCHANGED <<i, forecast_vars, stack_vars, block_vars, pool_vars, basis_vars>>

\* init_weights raises: assert 1<0, 'Initialization ... not found'
InitWeightsRaises ==
    /\ pc = "create_stack"
    /\ i <= Len(stack_types)
    /\ block_id < n_blocks[i]
    /\ IF shared_weights /\ block_id > 0
       THEN ~LayersApply(instances[block_list[Len(block_list)]].layers,
                         self_initialization)
       ELSE /\ stack_types[i] = "identity"
            /\ ConstructorAccepts(BlockArgs(i))
            /\ ~LayersApply(NHITSBlock(BlockArgs(i)).layers, self_initialization)
    /\ pc' = "error"
    /\ UNCHANGED <<i, forecast_vars, stack_vars, block_vars, pool_vars, basis_vars>>

NextCreateStack ==
    \/ NextStackType
    \/ SharedBlock
    \/ NewBlock
    \/ BlockTypeNotFound
    \/ CreateStackReturn

\* with the arguments of InitStack neither the block constructor nor
\* init_weights raises
SpecStack == InitStack /\ [][NextCreateStack]_vars

(***************************************************************************)
(* NHITS.__init__: the arguments are stored and _NHITS is built from them  *)
(* by create_stack.                                                        *)
(***************************************************************************)
ActivationModelArgs == {"ReLU", "SELU", "Swish"}
InitializationArgs == {"he_uniform", "lecun_normal", "xavier"}

Hparams ==
    {[activation |-> a, initialization |-> init, pooling_mode |-> "max",
      layer_mode |-> lm, output_layer |-> ol, n_layers |-> 1,
      n_theta_hidden |-> <<NTimeIn>>, n_pool_kernel_size |-> 1] :
        a \in ActivationModelArgs, init \in InitializationArgs,
        lm \in LayerModes, ol \in OutputLayers}

InitModel ==
    /\ \E n \in 1..MaxStacks :
           /\ stack_types \in [1..n -> StackTypes]
           /\ n_blocks \in [1..n -> 0..MaxBlocksPerStack]
           /\ \E f \in 1..MaxFreq : n_freq_downsample = [k \in 1..n |-> f]
    /\ shared_weights \in BOOLEAN
    /\ batch_normalization \in BOOLEAN
    /\ hparams \in Hparams
    /\ self_initialization = ""
    /\ pc = "nhits_init"
    /\ i = 1
    /\ block_id = 0
    /\ block_list = <<>>
    /\ instances = <<>>
    /\ ForecastIdle
    /\ BlockIdle
    /\ PoolIdle
    /\ BasisIdle

\* if activation == 'SELU': initialization = 'lecun_normal', then the
\* arguments are stored and handed to _NHITS
NHITSInit ==
    /\ pc = "nhits_init"
    /\ self_initialization' = IF hparams.activation = "SELU"
                              THEN "lecun_normal"
                              ELSE hparams.initialization
    /\ pc' = "create_stack"
    /\ UNCHANGED <<i, forecast_vars, block_vars, pool_vars, basis_vars, stack_types, n_blocks,
                   n_freq_downsample, shared_weights, batch_normalization, block_id,
                   block_list, instances, hparams>>

NextModel ==
    \/ NHITSInit
    \/ NextStackType
    \/ SharedBlock
    \/ NewBlock
    \/ BlockTypeNotFound
    \/ BlockConstructorRaises
    \/ InitWeightsRaises
    \/ CreateStackReturn

SpecModel == InitModel /\ [][NextModel]_vars

(***************************************************************************)
(* StochasticPool1D.forward.  The indices are drawn on the device          *)
(* (t.cuda.LongTensor); every draw of t.randint is a possible one.         *)
(***************************************************************************)
\* x.unfold(1, kernel_size, stride).contiguous().view(-1, kernel_size) with
\* stride = kernel_size: one row per window, batch element after batch element
Unfold(t, k) ==
    LET n_windows == ((Len(t[1]) - k) \div k) + 1
    IN  [r \in 1..(Len(t) * n_windows) |->
            LET b == ((r - 1) \div n_windows) + 1
                j == (r - 1) % n_windows
            IN  SubSeq(t[b], j * k + 1, j * k + k)]

\* the rows of a 2-d tensor one after the other
RECURSIVE Flatten(_)
Flatten(rows) == IF Len(rows) = 0 THEN <<>> ELSE rows[1] \o Flatten(Tail(rows))

\* t.take(windows, index): the tensor is read as if it were 1-d
Take(windows, index) ==
    LET flat == Flatten(windows)
    IN  [r \in 1..Len(index) |-> flat[index[r] + 1]]

\* values.view(n, width)
View(values, n, width) ==
    [b \in 1..n |-> [j \in 1..width |-> values[(b - 1) * width + j]]]

InitPool ==
    /\ pool_x \in Tensor(PoolBatch, PoolLen, {0, 1})
    /\ pool_kernel_size \in 1..(PoolLen + 1)
    /\ pool_idx = <<>>
    /\ pool_out = <<>>
    /\ pc = "pool"
    /\ i = 0
    /\ ForecastIdle
    /\ StackIdle
    /\ BlockIdle
    /\ BasisIdle

\* forward returns
StochasticPoolForward ==
    /\ pc = "pool"
    /\ pool_kernel_size <= PoolLen
    /\ LET windows == Unfold(pool_x, pool_kernel_size)
       IN  \E index \in [1..Len(windows) -> 0..(pool_kernel_size - 1)] :
               /\ pool_idx' = index
               /\ pool_out' = View(Take(windows, index), Len(pool_x), PoolLen \div pool_kernel_size)
    /\ pc' = "pooled"
    /\ UNCHANGED <<i, pool_x, pool_kernel_size, forecast_vars, stack_vars, block_vars, basis_vars>>

\* unfold raises: the kernel is wider than the input
StochasticPoolRaises ==
    /\ pc = "pool"
    /\ pool_kernel_size > PoolLen
    /\ pc' = "pool_error"
    /\ UNCHANGED <<i, pool_vars, basis_vars, forecast_vars, stack_vars, block_vars>>

NextPool ==
    \/ StochasticPoolForward
    \/ StochasticPoolRaises

SpecPool == InitPool /\ [][NextPool]_vars

(***************************************************************************)
(* IdentityBasis.forward in the modes 'nearest' and 'cubic-<batch_size>'.  *)
(* interpolation_mode is held as its parts between the '-' signs:          *)
(* <<"nearest">> or <<"cubic", batch_size>>.  Bicubic weights are          *)
(* rationals: the forecast of the cubic mode is held multiplied by         *)
(* CubicScale(forecast_size), which makes every value an integer.          *)
(***************************************************************************)
\* theta[:, :backcast_size]
SliceBackcast(theta, backcast_size) ==
    [b \in 1..Len(theta) |-> SubSeq(theta[b], 1, Min2(backcast_size, Len(theta[b])))]

\* theta[:, backcast_size:]
SliceKnots(theta, backcast_size) ==
    [b \in 1..Len(theta) |-> SubSeq(theta[b], backcast_size + 1, Len(theta[b]))]

\* the common denominator of the bicubic weights for an output of width size:
\* 4 * (2 * size)^3 (A = -3/4, source positions are multiples of 1/(2*size))
CubicScale(size) == 4 * (2 * size) * (2 * size) * (2 * size)

\* cubic_convolution1(p/q, A) * 4 * q^3 with A = -0.75, for |x| <= 1
CubicConvolution1(p, q) == (5 * p - 9 * q) * p * p + 4 * q * q * q

\* cubic_convolution2(p/q, A) * 4 * q^3 with A = -0.75, for 1 < |x| < 2
CubicConvolution2(p, q) ==
    0 - 3 * (p * p * p - 5 * p * p * q + 8 * p * q * q - 4 * q * q * q)

\* F.interpolate(row, size, mode='bicubic') along the width of one row of
\* knots (align_corners off), times CubicScale(size); the input has height 1,
\* so the weights along the height add up to 1 on the same value
InterpolateBicubic(knots, size) ==
    [h \in 1..size |->
        LET q == 2 * size
            \* source position ((h - 1) + 0.5) * Len(knots)/size - 0.5, times q
            real_x == (2 * (h - 1) + 1) * Len(knots) - size
            in_x == real_x \div q
            t_x == real_x - in_x * q
            at(x) == knots[Max2(Min2(x, Len(knots) - 1), 0) + 1]
        IN  CubicConvolution2(t_x + q, q) * at(in_x - 1)
          + CubicConvolution1(t_x, q) * at(in_x)
          + CubicConvolution1(q - t_x, q) * at(in_x + 1)
          + CubicConvolution2(2 * q - t_x, q) * at(in_x + 2)]

\* a sub-batch slice that also takes the first row of the next sub-batch
SubBatchOverlapping(k, batch_size, n) ==
    {b \in 1..n : k * batch_size < b /\ b <= (k + 1) * batch_size + 1}

\* the rows of the slice [i*batch_size:(i+1)*batch_size] of n rows (k is i)
SubBatch(k, batch_size, n) ==
    {b \in 1..n : k * batch_size < b /\ b <= (k + 1) * batch_size}

\* int(np.ceil(len(knots)/batch_size))
NBatches(n, batch_size) == (n + batch_size - 1) \div batch_size

\* int(self.interpolation_mode.split('-')[-1])
BatchSize(interpolation_mode) == interpolation_mode[Len(interpolation_mode)]

\* a basis as create_stack builds it for an identity stack, called on a theta
\* of n_theta coefficients per row: 'nearest' on one row, 'cubic-s' on a
\* batch with backcast_size 1
InitBasis ==
    /\ \/ \E n_in \in 1..NTimeIn, n_out \in 1..MaxTimeOut, f \in 1..MaxFreq :
              /\ basis_self = [backcast_size |-> n_in, forecast_size |-> n_out,
                               interpolation_mode |-> <<"nearest">>]
              /\ basis_theta \in Tensor(1, NTheta(n_in, n_out, f), {0, 1})
       \/ \E n \in 1..BasisBatch, n_out \in 1..MaxTimeOut, f \in 1..MaxFreq,
              s \in 1..(BasisBatch + 1) :
              /\ basis_self = [backcast_size |-> 1, forecast_size |-> n_out,
                               interpolation_mode |-> <<"cubic", s>>]
              /\ basis_theta \in Tensor(n, NTheta(1, n_out, f), {0, 1})
    /\ basis_backcast = <<>>
    /\ basis_knots = <<>>
    /\ basis_forecast = <<>>
    /\ pc = "basis"
    /\ i = 0
    /\ ForecastIdle
    /\ StackIdle
    /\ BlockIdle
    /\ PoolIdle

\* forward in mode 'nearest'
BasisNearest ==
    /\ pc = "basis"
    /\ basis_self.interpolation_mode[1] = "nearest"
    /\ basis_backcast' = SliceBackcast(basis_theta, basis_self.backcast_size)
    /\ basis_knots' = SliceKnots(basis_theta, basis_self.backcast_size)
    /\ basis_forecast' =
           [b \in 1..Len(basis_theta) |->
               InterpolateNearest(SliceKnots(basis_theta, basis_self.backcast_size)[b],
                                  basis_self.forecast_size)]
    /\ pc' = "basis_done"
    /\ UNCHANGED <<i, basis_self, basis_theta, forecast_vars, stack_vars, block_vars, pool_vars>>

\* forward in a cubic mode, up to the loop: forecast = t.zeros(...)
CubicStart ==
    /\ pc = "basis"
    /\ basis_self.interpolation_mode[1] = "cubic"
    /\ basis_backcast' = SliceBackcast(basis_theta, basis_self.backcast_size)
    /\ basis_knots' = SliceKnots(basis_theta, basis_self.backcast_size)
    /\ basis_forecast' = [b \in 1..Len(basis_theta) |-> [h \in 1..basis_self.forecast_size |-> 0]]
    /\ i' = 0
    /\ pc' = "cubic_loop"
    /\ UNCHANGED <<basis_self, basis_theta, forecast_vars, stack_vars, block_vars, pool_vars>>

\* one iteration of "for i in range(n_batches)"
CubicBatch ==
    /\ pc = "cubic_loop"
    /\ i < NBatches(Len(basis_knots), BatchSize(basis_self.interpolation_mode))
    /\ basis_forecast' =
           [b \in 1..Len(basis_forecast) |->
               IF b \in SubBatch(i, BatchSize(basis_self.interpolation_mode), Len(basis_knots))
               THEN [h \in 1..basis_self.forecast_size |->
                        basis_forecast[b][h]
                          + InterpolateBicubic(basis_knots[b], basis_self.forecast_size)[h]]
               ELSE basis_forecast[b]]
    /\ i' = i + 1
    /\ UNCHANGED <<pc, basis_self, basis_theta, basis_backcast, basis_knots, forecast_vars, stack_vars,
                   block_vars, pool_vars>>

\* return backcast, forecast
CubicReturn ==
    /\ pc = "cubic_loop"
    /\ i >= NBatches(Len(basis_knots), BatchSize(basis_self.interpolation_mode))
    /\ pc' = "basis_done"
    /\ UNCHANGED <<i, basis_vars, forecast_vars, stack_vars, block_vars, pool_vars>>

NextBasis ==
    \/ BasisNearest
    \/ CubicStart
    \/ CubicBatch
    \/ CubicReturn

SpecBasis == InitBasis /\ [][NextBasis]_vars

(***************************************************************************)
(* The forward recurrence as the specification states it, written from     *)
(* the input alone.                                                        *)
(***************************************************************************)
Rows == 1..Len(insample_y)

\* the same tensor, held as a sequence of sequences
AsTensor(x) == SubSeq([b \in 1..Len(x) |-> SubSeq(x[b], 1, Len(x[b]))], 1, Len(x))

\* the insample window and the availability mask, most recent value first
Reversed(x) == [b \in Rows |-> [j \in 1..NTimeIn |-> x[b][NTimeIn + 1 - j]]]

\* the sum of the forecasts of blocks k, k+1, ... when block k is run on res
\* and every later block on the residual left by the blocks before it
RECURSIVE SumOfBlockForecasts(_, _)
SumOfBlockForecasts(k, res) ==
    IF k > Len(blocks) THEN [b \in Rows |-> [h \in 1..NTimeOut |-> 0]]
    ELSE LET backcast == AsTensor(Block(blocks[k], res).backcast)
             block_forecast == AsTensor(Block(blocks[k], res).forecast)
             left == AsTensor([b \in Rows |->
                                 [j \in 1..NTimeIn |->
                                     (res[b][j] - backcast[b][j])
                                       * insample_mask[b][NTimeIn + 1 - j]]])
             rest == AsTensor(SumOfBlockForecasts(k + 1, left))
         IN  [b \in Rows |-> [h \in 1..NTimeOut |-> block_forecast[b][h] + rest[b][h]]]

\* the backcasts of blocks 1..k, block m being run on the reversed insample
\* window minus the backcasts of blocks 1..m-1
RECURSIVE Backcasts(_)
Backcasts(k) ==
    IF k = 0 THEN <<>>
    ELSE LET before == Backcasts(k - 1)
             input == AsTensor([b \in Rows |->
                                  [j \in 1..NTimeIn |->
                                      insample_y[b][NTimeIn + 1 - j]
                                    - SumSeq([m \in 1..(k - 1) |-> before[m][b][j]])]])
         IN  Append(before, AsTensor(Block(blocks[k], input).backcast))

AllOnes(mask) == \A b \in Rows : \A j \in 1..NTimeIn : mask[b][j] = 1

InLoop == pc \in {"forecast_loop", "decomposition_loop"}

\* C1: forecast() returns the naive level (last value of the un-reversed
\* insample window) plus the sum of the forecasts of all blocks, block k being
\* evaluated on the residual left by the blocks before it, starting from the
\* reversed insample window.
C1_ForecastIsLevelPlusBlockForecasts ==
    pc = "decomposition" =>
        LET total == AsTensor(SumOfBlockForecasts(1, AsTensor(Reversed(insample_y))))
        IN  \A b \in Rows :
                /\ Len(forecast_ret[b]) = IF Len(blocks) = 0 THEN 1 ELSE NTimeOut
                /\ \A h \in 1..Len(forecast_ret[b]) :
                       forecast_ret[b][h] = insample_y[b][NTimeIn] + total[b][h]

\* forecast() has returned for a model of at least two blocks whose forecast
\* differs from the naive level, on a window whose first and last values differ
C1_Witness ==
    /\ pc = "decomposition"
    /\ Len(blocks) >= 2
    /\ insample_y[1][1] # insample_y[1][NTimeIn]
    /\ forecast_ret[1][1] # insample_y[1][NTimeIn]

\* C2: every loop iteration leaves residual = (previous residual - backcast of
\* the block) * reversed availability mask, hence 0 wherever the availability
\* is 0, in the normal and in the decomposition pass.
C2_ResidualMaskedAfterEveryBlock ==
    [][(InLoop /\ i' = i + 1) =>
          LET backcast == Block(blocks[i], residuals).backcast
          IN  \A b \in Rows : \A j \in 1..NTimeIn :
                  /\ residuals'[b][j] =
                         (residuals[b][j] - backcast[b][j])
                           * insample_mask[b][NTimeIn + 1 - j]
                  /\ insample_mask[b][NTimeIn + 1 - j] = 0 => residuals'[b][j] = 0]_vars

\* a second block is about to run on a residual that is 0 at an unavailable
\* position where the reversed insample window was not 0, and not 0 at an
\* available position
C2_Witness ==
    /\ InLoop
    /\ i = 2
    /\ Len(blocks) >= 2
    /\ \E b \in Rows : \E j \in 1..NTimeIn :
           /\ insample_mask[b][NTimeIn + 1 - j] = 0
           /\ insample_y[b][NTimeIn + 1 - j] # 0
           /\ residuals[b][j] = 0
    /\ \E b \in Rows : \E j \in 1..NTimeIn :
           /\ insample_mask[b][NTimeIn + 1 - j] = 1
           /\ residuals[b][j] # 0

\* C3: under an all-ones availability mask the residual fed to block i is the
\* reversed insample window minus the backcasts of the blocks before i; it is
\* a function of those blocks only.
C3_ResidualIsCumulative ==
    (InLoop /\ AllOnes(insample_mask)) =>
        LET before == Backcasts(i - 1)
        IN  \A b \in Rows : \A j \in 1..NTimeIn :
                residuals[b][j] =
                    insample_y[b][NTimeIn + 1 - j]
                  - SumSeq([m \in 1..(i - 1) |-> before[m][b][j]])

\* all blocks of a model of at least two blocks have run under an all-ones
\* mask and left a residual other than the reversed window
C3_Witness ==
    /\ InLoop
    /\ AllOnes(insample_mask)
    /\ Len(blocks) >= 2
    /\ i = Len(blocks) + 1
    /\ residuals # Reversed(insample_y)

\* C4: the normal pass and the decomposition pass return the same forecast,
\* and it is the sum over the block axis of the recorded block forecasts.
C4_DecompositionConsistent ==
    pc = "done" =>
        /\ decomposition_ret.forecast = forecast_ret
        /\ \A b \in Rows : \A h \in 1..NTimeOut :
               SumSeq([k \in 1..Len(decomposition_ret.block_forecasts[b]) |->
                          decomposition_ret.block_forecasts[b][k][h]])
                 = forecast_ret[b][IF Len(forecast_ret[b]) = 1 THEN 1 ELSE h]

\* both passes have returned for a model of at least two blocks and a window
\* with a non-zero naive level
C4_Witness ==
    /\ pc = "done"
    /\ Len(blocks) >= 2
    /\ insample_y[1][NTimeIn] # 0
    /\ Len(decomposition_ret.block_forecasts[1]) = Len(blocks) + 1

(***************************************************************************)
(* Block positions and stacks.                                             *)
(***************************************************************************)
\* the stack a position of the returned list belongs to: positions are laid
\* out stack by stack, n_blocks[k] positions for stack k
RECURSIVE StackOfFrom(_, _)
StackOfFrom(p, k) == IF p <= n_blocks[k] THEN k ELSE StackOfFrom(p - n_blocks[k], k + 1)
StackOf(p) == StackOfFrom(p, 1)

\* the first position of the stack of position p
FirstOfStack(p) == CHOOSE q \in 1..p : StackOf(q) = StackOf(p) /\ \A r \in 1..(q - 1) : StackOf(r) # StackOf(p)

\* C6: with weight sharing every position of a stack refers to the same block
\* instance as the first position of that stack and positions of different
\* stacks to different instances; without it all positions are distinct
\* instances.
C6_WeightSharingAliases ==
    pc = "created" =>
        /\ Len(block_list) = SumSeq(n_blocks)
        /\ \A p, q \in 1..Len(block_list) :
               IF shared_weights
               THEN /\ block_list[p] = block_list[FirstOfStack(p)]
                    /\ StackOf(p) # StackOf(q) => block_list[p] # block_list[q]
               ELSE p # q => block_list[p] # block_list[q]

\* a model of two stacks of at least two blocks each was built with weight
\* sharing
C6_Witness ==
    /\ pc = "created"
    /\ shared_weights
    /\ Len(stack_types) >= 2
    /\ n_blocks[1] >= 2
    /\ n_blocks[2] >= 2

(***************************************************************************)
(* Shapes of a block.                                                      *)
(***************************************************************************)
\* the block was constructed the way create_stack constructs it
BuiltByCreateStack ==
    config.n_theta = config.n_time_in
                       + Max2(config.n_time_out \div config.n_freq_downsample, 1)

\* ceil(n / k)
CeilDiv(n, k) == CHOOSE m \in 0..n : m * k >= n /\ (m - 1) * k < n

\* C5 (as claimed): for every configuration the constructor accepts, forward
\* on an insample signal of length n_time_in returns a backcast of length
\* n_time_in and a forecast of length n_time_out.  (Stated for the blocks
\* create_stack builds with max or stochastic pooling and every listed hidden
\* width built, on batches a BatchNorm1d accepts; it fails already there.)
C5_ForwardShapes ==
    (/\ pc = "forwarded"
     /\ ~(fwd.training /\ fwd.batch = 1)
     /\ BuiltByCreateStack
     /\ config.n_layers = Len(config.n_theta_hidden)
     /\ config.pooling_mode \in {"max", "stochastic"}) =>
        /\ fwd.backcast = config.n_time_in
        /\ fwd.forecast = config.n_time_out

\* C7 (as claimed): max and stochastic pooling with kernel size k leave a
\* pooled length of ceil(n_time_in / k), the width the constructor assumed.
\* (Stated for kernels that fit the window; a wider kernel makes the pooling
\* raise.)
C7_PooledLengthIsCeil ==
    (/\ pc = "forwarded"
     /\ config.pooling_mode \in {"max", "stochastic"}
     /\ config.n_pool_kernel_size <= config.n_time_in) =>
        /\ fwd.pooled = CeilDiv(config.n_time_in, config.n_pool_kernel_size)
        /\ fwd.pooled = block.n_time_in_pooled

\* the last hidden width the output layer is built from
LastWidth == block.n_theta_hidden[Len(block.n_theta_hidden)]

\* the output layer was built in a branch with kernel = stride = floor ratio >= 2
\* whose derived width misses n_theta
DownSamplingMisses ==
    /\ config.output_layer \in {"conv", "max"}
    /\ LastWidth > config.n_theta
    /\ LastWidth \div config.n_theta >= 2
    /\ LastWidth \div (LastWidth \div config.n_theta) # config.n_theta
UpSamplingMisses ==
    /\ config.output_layer = "conv"
    /\ LastWidth < config.n_theta
    /\ config.n_theta \div LastWidth >= 2
    /\ (config.n_theta \div LastWidth) * LastWidth # config.n_theta

\* the constructor's arguments dimension the layer for an input of width w_in
\* and an output of width w_out: nn.Linear(w_in, w_out), or a MaxPool1d,
\* Conv1d or ConvTranspose1d whose kernel and stride leave length w_out on
\* length w_in, the BatchNorm1d a conv encoder runs being declared for w_out
Dimensioned(layer, w_in, w_out) ==
    IF layer.kind = "linear"
    THEN layer.in_features = w_in /\ layer.out_features = w_out
    ELSE IF layer.kind = "maxpool"
    THEN WindowWidth(w_in, layer.kernel_size, layer.stride) = w_out
    ELSE /\ ConvWidth(layer, w_in) = w_out
         /\ layer.activ # "None" => layer.num_features = w_out

\* the output layer ends in a bare linear layer to n_theta, fed by a first
\* stage dimensioned from the last hidden width to that layer's in_features
HasFinishingLinear ==
    /\ Len(block.output_layer) = 2
    /\ block.output_layer[2].kind = "linear"
    /\ block.output_layer[2].activ = "None"
    /\ Dimensioned(block.output_layer[1], LastWidth, block.output_layer[2].in_features)
    /\ Dimensioned(block.output_layer[2], block.output_layer[2].in_features, config.n_theta)

\* the output layer is a single layer dimensioned from the last hidden width
\* to n_theta
YieldsDirectly ==
    /\ Len(block.output_layer) = 1
    /\ Dimensioned(block.output_layer[1], LastWidth, config.n_theta)

\* the output layer is dimensioned from the last hidden width to exactly
\* n_theta, in one stage or in two
OutputLayerExact == HasFinishingLinear \/ YieldsDirectly

\* C9 (as claimed): the constructed output layer is dimensioned to map the
\* last hidden width to exactly n_theta; conv/max down-sampling with
\* floor(W/n_theta) >= 2 whose derived width differs from n_theta is followed
\* by a finishing linear layer, and every other branch yields n_theta
\* directly.
C9_OutputLayerAsClaimed ==
    pc \in {"constructed", "forwarded"} =>
        /\ OutputLayerExact
        /\ IF DownSamplingMisses THEN HasFinishingLinear ELSE YieldsDirectly

\* C9 (amended): the constructed output layer is dimensioned to map the
\* last hidden width to exactly n_theta; conv/max down-sampling and conv
\* up-sampling with a floor ratio >= 2 whose derived width differs from
\* n_theta are followed by a finishing linear layer, and every other branch
\* yields n_theta directly.
C9_OutputLayerExact ==
    pc \in {"constructed", "forwarded"} =>
        /\ OutputLayerExact
        /\ IF DownSamplingMisses \/ UpSamplingMisses
           THEN HasFinishingLinear ELSE YieldsDirectly

\* a conv output layer was built in the up-sampling branch whose derived
\* width misses n_theta, with a finishing linear layer
C9_Witness ==
    /\ pc = "constructed"
    /\ config.output_layer = "conv"
    /\ UpSamplingMisses
    /\ HasFinishingLinear
    /\ block.output_layer[1].kind = "up"

\* the hidden layers of loop positions 1..k
HiddenLayersUpTo(k) ==
    HiddenLayers(1, k, config.layer_mode, NThetaHidden(config), <<>>,
                 config.activation, config.batch_normalization).hidden_layers

\* the width that leaves the hidden layers of loop positions 1..k on n rows
WidthAfterHidden(k, n, training) ==
    ApplyLayers(HiddenLayersUpTo(k), NThetaHidden(config)[1], n, training)

\* C10: in convolutional layer mode the layers inserted between consecutive
\* hidden widths produce exactly the configured W_out.  (Stated on batches a
\* BatchNorm1d accepts; it fails already there.)
C10_ConfiguredWidthReached ==
    (pc \in {"constructed", "forwarded"} /\ config.layer_mode = "conv") =>
        \A k \in 1..config.n_layers :
            \A n \in 1..MaxBatch, training \in BOOLEAN :
                ~(training /\ n = 1) =>
                    WidthAfterHidden(k, n, training) = NThetaHidden(config)[k + 1]

(***************************************************************************)
(* Stochastic pooling.                                                     *)
(***************************************************************************)
\* C8 (as claimed): for every draw of the indices the output at batch element
\* b and position j is one of the kernel_size inputs of batch element b in
\* window j.
C8_PooledValueFromOwnWindow ==
    pc = "pooled" =>
        \A b \in 1..Len(pool_out) : \A j \in 1..Len(pool_out[b]) :
            \E d \in 1..pool_kernel_size :
                pool_out[b][j] = pool_x[b][(j - 1) * pool_kernel_size + d]

(***************************************************************************)
(* Configuration errors of a block.                                        *)
(***************************************************************************)
\* the constructor has been called
Called == pc \in {"constructed", "init_error", "forwarded"}

\* C11: constructing a block with an activation name outside the table of
\* eight names or with a pooling mode outside max, conv, stochastic, none
\* raises during construction: no block object exists afterwards and the
\* name the caller gave is not replaced by another one.
C11_UnknownNamesRaise ==
    (/\ Called
     /\ \/ config.activation \notin {"ReLU", "Softplus", "Tanh", "SELU", "LeakyReLU",
                                      "PReLU", "Sigmoid", "Sin"}
        \/ config.pooling_mode \notin {"max", "conv", "stochastic", "none"}) =>
        /\ pc = "init_error"
        /\ block = <<>>

\* the constructor raised on an activation name that differs from a name of
\* the table only in its case, the pooling mode being a valid one
C11_Witness ==
    /\ pc = "init_error"
    /\ config.activation = "relu"
    /\ config.pooling_mode = "max"
    /\ block = <<>>

(***************************************************************************)
(* Configuration errors of a model.                                        *)
(***************************************************************************)
\* every stack of the model has at least one block
EveryStackHasBlocks == \A k \in 1..Len(n_blocks) : n_blocks[k] >= 1

\* C12 (as claimed): a model is never constructed from an initialization
\* name outside orthogonal, he_uniform, he_normal, glorot_uniform,
\* glorot_normal, Sin, lecun_normal: the construction raises, for every layer
\* mode, output-layer mode and activation.  (Stated for models with at least
\* one block in every stack; it fails already there.)
C12_UnknownInitializationRaises ==
    (pc = "created" /\ hparams # <<>> /\ EveryStackHasBlocks) =>
        hparams.initialization \in {"orthogonal", "he_uniform", "he_normal",
                                    "glorot_uniform", "glorot_normal", "Sin",
                                    "lecun_normal"}

\* C13 (as claimed): a model whose stack_types list has an entry other than
\* 'identity' is never constructed: the construction raises, for every choice
\* of the per-stack block counts and of the weight-sharing flag.
C13_UnknownStackTypeRaises ==
    pc = "created" => \A k \in 1..Len(stack_types) : stack_types[k] = "identity"

(***************************************************************************)
(* Convolutional pooling.                                                  *)
(***************************************************************************)
\* C14 (as claimed): constructing a block with pooling mode 'conv' (and a
\* recognized activation) succeeds, and the first layer of the projection
\* chain is a down-sample conv encoder with kernel = stride = pooling kernel
\* size and no activation, ahead of the configured hidden layers.
C14_ConvPoolingConstructs ==
    (/\ Called
     /\ config.pooling_mode = "conv"
     /\ config.activation \in {"ReLU", "Softplus", "Tanh", "SELU", "LeakyReLU", "PReLU",
                               "Sigmoid", "Sin"}) =>
        /\ pc \in {"constructed", "forwarded"}
        /\ Len(block.layers) >= 1
        /\ block.layers[1].kind = "down"
        /\ block.layers[1].kernel_size = config.n_pool_kernel_size
        /\ block.layers[1].stride = config.n_pool_kernel_size
        /\ block.layers[1].activ = "None"

\* the basis has returned
BasisReturned == pc = "basis_done"

BasisMode == basis_self.interpolation_mode[1]

\* C15: in mode 'nearest', when the knots segment is as long as the forecast
\* horizon, the forecast is the knots segment of theta element for element,
\* and the backcast is the first backcast_size coefficients of theta.
C15_NearestRoundTrip ==
    (BasisReturned /\ BasisMode = "nearest") =>
        \A b \in 1..Len(basis_theta) :
            Len(basis_theta[b]) - basis_self.backcast_size = basis_self.forecast_size =>
                /\ Len(basis_forecast[b]) = basis_self.forecast_size
                /\ \A h \in 1..basis_self.forecast_size :
                       basis_forecast[b][h] = basis_theta[b][basis_self.backcast_size + h]
                /\ Len(basis_backcast[b]) = basis_self.backcast_size
                /\ \A j \in 1..basis_self.backcast_size :
                       basis_backcast[b][j] = basis_theta[b][j]

\* a nearest call with two knots that differ and a horizon of two
C15_Witness ==
    /\ BasisReturned
    /\ BasisMode = "nearest"
    /\ basis_self.forecast_size = 2
    /\ basis_self.backcast_size = NTimeIn
    /\ Len(basis_theta[1]) = NTimeIn + 2
    /\ basis_forecast[1] = <<0, 1>>
    /\ basis_backcast[1][1] = 1

\* C16: in a cubic mode the loop over sub-batches leaves, after k iterations,
\* the first k * batch_size rows equal to the interpolation of their own row
\* of knots, written once, and the other rows still zero; on return every
\* row is the interpolation of its own row, whatever the batch size.
C16_CubicSubBatches ==
    (basis_self # <<>> /\ BasisMode = "cubic" /\ pc \in {"cubic_loop", "basis_done"}) =>
        /\ Len(basis_forecast) = Len(basis_theta)
        /\ \A b \in 1..Len(basis_theta) :
               basis_forecast[b] =
                   IF pc = "basis_done" \/ b <= i * BatchSize(basis_self.interpolation_mode)
                   THEN InterpolateBicubic(
                            SubSeq(basis_theta[b], basis_self.backcast_size + 1,
                                   Len(basis_theta[b])),
                            basis_self.forecast_size)
                   ELSE [h \in 1..basis_self.forecast_size |-> 0]

\* two rows interpolated in two sub-batches of one row, from knots that differ
C16_Witness ==
    /\ BasisReturned
    /\ BasisMode = "cubic"
    /\ BatchSize(basis_self.interpolation_mode) = 1
    /\ Len(basis_theta) = 2
    /\ i = 2
    /\ basis_self.forecast_size >= 2
    /\ basis_knots[1] = <<0, 1>>
    /\ basis_knots[2] = <<1, 1>>
    /\ basis_forecast[2] = [h \in 1..basis_self.forecast_size |->
                                CubicScale(basis_self.forecast_size)]
    /\ basis_forecast[1] # basis_forecast[2]

\* C18: a theta of n_theta = n_time_in + max(n_time_out // f, 1) coefficients
\* has a knots segment of 1 to n_time_out coefficients and a backcast segment
\* of exactly n_time_in coefficients.
C18_KnotsLength ==
    basis_self # <<>> =>
        \A b \in 1..Len(basis_theta) :
            /\ \E f \in 1..MaxFreq :
                   Len(basis_theta[b]) =
                       NTheta(basis_self.backcast_size, basis_self.forecast_size, f)
            /\ Len(basis_theta[b]) - basis_self.backcast_size \in 1..basis_self.forecast_size
            /\ pc # "basis" =>
                   /\ Len(basis_knots[b]) = Len(basis_theta[b]) - basis_self.backcast_size
                   /\ Len(basis_backcast[b]) = basis_self.backcast_size

\* a factor above the horizon: n_time_out // f is 0 and one knot is kept
C18_Witness ==
    /\ BasisReturned
    /\ basis_self.forecast_size = 1
    /\ basis_self.backcast_size = NTimeIn
    /\ \E f \in 1..MaxFreq :
           /\ f > basis_self.forecast_size
           /\ Len(basis_theta[1]) = NTheta(NTimeIn, 1, f)
    /\ Len(basis_knots[1]) = 1
    /\ Len(basis_backcast[1]) = NTimeIn
    /\ basis_forecast[1] = <<1>>

\* the loop position k of the hidden layers appended a layer: in convolutional
\* mode equal widths append nothing
Appended(k) ==
    config.layer_mode = "linear" \/ block.n_theta_hidden[k] # NThetaHidden(config)[k + 1]

\* the layer that loop position k appended
HiddenLayerAt(k) == block.hidden_layers[Cardinality({j \in 1..k : Appended(j)})]

\* C17: in convolutional layer mode the width recorded for hidden position
\* i+1 is the output width of the conv built from the recorded W_in:
\* down-sampling with floor(W_in/W_out) >= 2 has kernel = stride =
\* floor(W_in/W_out) and records floor((W_in - kernel)/stride + 1);
\* up-sampling with floor(W_out/W_in) >= 2 has kernel = stride =
\* floor(W_out/W_in) and records kernel * W_in; the stride-1 branches have
\* kernel = |W_in - W_out| + 1 and yield W_out; the next layer is sized from
\* the recorded width and the output layer from the last width of the list.
C17_RecordedWidthIsConvWidth ==
    (pc \in {"constructed", "forwarded"} /\ config.layer_mode = "conv") =>
        /\ Len(block.hidden_layers) = Cardinality({j \in 1..config.n_layers : Appended(j)})
        /\ \A k \in 1..config.n_layers :
               LET w_in == block.n_theta_hidden[k]
                   w_out == NThetaHidden(config)[k + 1]
                   recorded == block.n_theta_hidden[k + 1]
                   layer == HiddenLayerAt(k)
               IN  /\ w_in = w_out => recorded = w_out
                   /\ (w_in > w_out /\ w_in \div w_out >= 2) =>
                          /\ layer.kind = "down"
                          /\ layer.kernel_size = w_in \div w_out
                          /\ layer.stride = layer.kernel_size
                          /\ recorded = ((w_in - layer.kernel_size) \div layer.stride) + 1
                   /\ (w_in > w_out /\ w_in \div w_out < 2) =>
                          /\ layer.kind = "down"
                          /\ layer.kernel_size = w_in - w_out + 1
                          /\ layer.stride = 1
                          /\ recorded = w_out
                   /\ (w_in < w_out /\ w_out \div w_in >= 2) =>
                          /\ layer.kind = "up"
                          /\ layer.kernel_size = w_out \div w_in
                          /\ layer.stride = layer.kernel_size
                          /\ recorded = layer.kernel_size * w_in
                   /\ (w_in < w_out /\ w_out \div w_in < 2) =>
                          /\ layer.kind = "up"
                          /\ layer.kernel_size = w_out - w_in + 1
                          /\ layer.stride = 1
                          /\ recorded = w_out
                   /\ w_in # w_out =>
                          /\ ConvWidth(layer, w_in) = recorded
                          /\ layer.num_features = recorded
        /\ block.output_layer =
               OutputLayer(config.output_layer, block.n_theta_hidden[Len(block.n_theta_hidden)],
                           config.n_theta, config.activation)

\* width 8 towards a configured 3: kernel = stride = 2 records 4; the second
\* layer goes from the recorded 4 to 5 with kernel 2 and stride 1
C17_Witness ==
    /\ pc = "constructed"
    /\ config.layer_mode = "conv"
    /\ config.n_layers = 2
    /\ config.n_time_in = 8
    /\ config.n_theta_hidden = <<3, 5>>
    /\ block.n_theta_hidden = <<8, 4, 5>>
    /\ block.hidden_layers[1].kind = "down"
    /\ block.hidden_layers[1].kernel_size = 2
    /\ block.hidden_layers[2].kind = "up"
    /\ block.hidden_layers[2].kernel_size = 2
    /\ block.hidden_layers[2].stride = 1

\* C19: in output-layer mode 'conv', when the derived conv width differs from
\* n_theta and a finishing linear layer follows the conv encoder, no stage of
\* the output layer carries an activation.
C19_ConvAdapterHasNoActivation ==
    (/\ pc \in {"constructed", "forwarded"}
     /\ config.output_layer = "conv"
     /\ DownSamplingMisses \/ UpSamplingMisses
     /\ HasFinishingLinear) =>
        \A k \in 1..Len(block.output_layer) : block.output_layer[k].activ = "None"

\* the forecasts of blocks k, k+1, ... in evaluation order and the residual
\* they leave, when block k is run on res and every later block on the
\* residual left by the blocks before it, without anything being recorded
RECURSIVE Trajectory(_, _)
Trajectory(k, res) ==
    IF k > Len(blocks) THEN [residuals |-> res, block_forecasts |-> <<>>]
    ELSE LET out == Block(blocks[k], res)
             backcast == AsTensor(out.backcast)
             left == AsTensor([b \in Rows |->
                                 [j \in 1..NTimeIn |->
                                     (res[b][j] - backcast[b][j])
                                       * insample_mask[b][NTimeIn + 1 - j]]])
             rest == Trajectory(k + 1, left)
         IN  [residuals |-> rest.residuals,
              block_forecasts |-> <<AsTensor(out.forecast)>> \o rest.block_forecasts]

\* C20: the decomposition pass over B block positions returns, for each batch
\* element, B + 1 entries along the block axis: the first is the naive level
\* repeated over the n_time_out horizon steps, entry k + 1 is the forecast of
\* the k-th block in evaluation order; the residual it ends with and the
\* forecast it returns are those of the pass that records nothing.
C20_DecompositionStack ==
    /\ pc = "decomposition_loop" => Len(block_forecasts) = i
    /\ pc = "done" =>
           LET run == Trajectory(1, AsTensor(Reversed(insample_y)))
               stack == decomposition_ret.block_forecasts
           IN  /\ Len(stack) = Len(insample_y)
               /\ \A b \in Rows :
                      /\ Len(stack[b]) = Len(blocks) + 1
                      /\ stack[b][1] = [h \in 1..NTimeOut |-> insample_y[b][NTimeIn]]
                      /\ \A k \in 1..Len(blocks) :
                             stack[b][k + 1] = run.block_forecasts[k][b]
               /\ residuals = run.residuals
               /\ decomposition_ret.forecast = forecast_ret

\* the decomposition pass has returned three entries for a model of two
\* blocks: a non-zero level and two block forecasts that differ, on a window
\* with a masked value
C20_Witness ==
    /\ pc = "done"
    /\ Len(blocks) = 2
    /\ ~AllOnes(insample_mask)
    /\ Len(decomposition_ret.block_forecasts[1]) = 3
    /\ decomposition_ret.block_forecasts[1][1] = [h \in 1..NTimeOut |-> 1]
    /\ decomposition_ret.block_forecasts[1][2] # decomposition_ret.block_forecasts[1][3]
    /\ decomposition_ret.block_forecasts[1][3] # [h \in 1..NTimeOut |-> 0]

\* C21: with pooling mode 'none' the insample signal reaches the projection
\* network at length n_time_in, and the width the constructor sizes the first
\* projection layer for is the width that arrives,
\* n_time_in + (n_time_in + n_time_out) * n_x + n_s_hidden, for every pooling
\* kernel size.
C21_NoPoolingWidthAccepted ==
    (pc = "forwarded" /\ config.pooling_mode = "none") =>
        /\ fwd.pooled = config.n_time_in
        /\ fwd.input = config.n_time_in
                         + (config.n_time_in + config.n_time_out) * config.n_x
                         + (IF config.n_s = 0 THEN 0 ELSE config.n_s_hidden)
        /\ block.n_theta_hidden[1] = fwd.input

\* C22: in linear layer mode, for every n_layers from 0 to the number of
\* configured hidden widths, the hidden layers chain (each takes the width the
\* one before it yields, the first the projection input width) and the output
\* layer is built for the output width of the last hidden layer constructed,
\* or for the projection input width when n_layers = 0.
C22_DeclaredWidthsChain ==
    (pc \in {"constructed", "forwarded"} /\ config.layer_mode = "linear") =>
        LET built == IF config.n_layers = 0 THEN block.n_theta_hidden[1]
                     ELSE block.hidden_layers[config.n_layers].out_features
        IN  /\ Len(block.hidden_layers) = config.n_layers
            /\ \A k \in 1..config.n_layers :
                   block.hidden_layers[k].in_features =
                       IF k = 1 THEN block.n_theta_hidden[1]
                       ELSE block.hidden_layers[k - 1].out_features
            /\ block.output_layer =
                   OutputLayer(config.output_layer, built, config.n_theta, config.activation)

\* the layers of an instance that hold a BatchNorm1d: a linear encoder built
\* with batch_normalization, and every down- or up-sampling encoder
BatchNormLayers(inst) ==
    {k \in 1..Len(inst.layers) :
        \/ inst.layers[k].kind = "linear" /\ inst.layers[k].batch_normalization
        \/ inst.layers[k].kind \in {"down", "up"}}

\* C23: with the model's batch-normalization flag on, only the first block
\* instance of the whole model is built with batch normalization, every
\* instance built later in any stack is built without it, and with the flag
\* off no instance is built with it: the flag passed to the constructor and
\* the BatchNorm1d of the linear encoders follow it (the down- and up-sampling
\* encoders hold a BatchNorm1d of their own and take no flag).  The positions
\* that use it are position 1 and, under weight sharing, the positions
\* aliasing that first instance.
C23_BatchNormOnlyFirstBlock ==
    pc \in {"create_stack", "created"} =>
        /\ \A n \in 1..Len(instances) :
               /\ instances[n].batch_normalization = (batch_normalization /\ n = 1)
               /\ {k \in BatchNormLayers(instances[n]) : instances[n].layers[k].kind = "linear"} =
                      IF batch_normalization /\ n = 1
                      THEN \* the hidden linear layers: they carry the activation
                           {k \in 1..Len(instances[n].layers) :
                               /\ instances[n].layers[k].kind = "linear"
                               /\ instances[n].layers[k].activ # "None"}
                      ELSE {}
        /\ \A p \in 1..Len(block_list) :
               instances[block_list[p]].batch_normalization =>
                   /\ block_list[p] = block_list[1]
                   /\ p = 1 \/ (shared_weights /\ StackOf(p) = StackOf(1))

\* a model with the flag on and weight sharing: two positions of the first
\* stack share the instance with batch normalization, the instance of the
\* second stack has none
C23_Witness ==
    /\ pc = "created"
    /\ batch_normalization
    /\ shared_weights
    /\ Len(stack_types) = 2
    /\ n_blocks[1] = 2
    /\ n_blocks[2] >= 1
    /\ block_list[2] = block_list[1]
    /\ BatchNormLayers(instances[block_list[1]]) = {1}
    /\ block_list[3] # block_list[1]
    /\ BatchNormLayers(instances[block_list[3]]) = {}

====
